---- MODULE Spec2Model ----
(***************************************************************************)
(* State-machine model of WaveformAnalyzer (src/main.py): a column of a    *)
(* table is plotted, a selection [start_idx, end_idx] is dragged over it   *)
(* with the pointer, and the mean of the selected values is displayed.     *)
(*                                                                         *)
(* Pointer coordinates (event.xdata) are fractional.  They are modelled    *)
(* exactly as integer multiples of 1/Res of an index unit: a coordinate c  *)
(* of the model stands for the real number c/Res, and Idx(i) is the        *)
(* coordinate of the integer index i.  Floating-point rounding error is    *)
(* not modelled.                                                           *)
(***************************************************************************)
EXTENDS Integers, Sequences, FiniteSets, TLC

VARIABLES df, col_data, start_idx, end_idx, is_dragging, drag_type,
          drag_offset, mean_var, selection_rect, patches, xlim, last, trip,
          copy_hint_var, copy_hint_color, clipboard, timers

vars == <<df, col_data, start_idx, end_idx, is_dragging, drag_type,
          drag_offset, mean_var, selection_rect, patches, xlim, last, trip,
          copy_hint_var, copy_hint_color, clipboard, timers>>

\* The state of the copy feature: the hint text and its colour, the system
\* clipboard, and the number of pending root.after callbacks.
copy_vars == <<copy_hint_var, copy_hint_color, clipboard, timers>>

(***************************************************************************)
(* Bounds of the model.                                                    *)
(***************************************************************************)
\* Pointer coordinates are resolved to 1/Res of an index unit.
Res == 2
\* The x-axis extends Margin coordinate steps beyond the plotted data.
Margin == 2
\* The hit-test tolerance (the literal 1000 of on_mouse_press), in index
\* units, scaled to the size of the model's columns.
Tolerance == 2
\* The default span (the literal 20000 of __init__ and load_column_data),
\* scaled to the size of the model's columns.
DefaultSpan == 4

(***************************************************************************)
(* Values.                                                                 *)
(***************************************************************************)
\* An optional value is a tuple: None is the empty tuple, Some(v) holds v.
None == <<>>
Some(v) == <<v>>
\* A missing cell of the table.
NaN == None
\* drag_type is None or one of the strings "start", "end", "move".
NoDrag == "None"

\* The table read by load_file: column name -> raw column (missing = NaN).
Table ==
    [ empty |-> <<NaN, NaN>>,
      one   |-> <<NaN, Some(7)>>,
      two   |-> <<Some(3), NaN, Some(4)>>,
      five  |-> <<Some(1), Some(2), Some(3), Some(4), Some(5)>>,
      six   |-> <<Some(2), Some(-1), NaN, Some(4), Some(0), Some(6),
                  Some(1)>> ]

Columns == DOMAIN Table

Min(a, b) == IF a <= b THEN a ELSE b
Max(a, b) == IF a >= b THEN a ELSE b
Abs(a) == IF a >= 0 THEN a ELSE -a

\* The coordinate of index i.
Idx(i) == i * Res

\* int(v) of Python for the coordinate v: truncation toward zero.
Trunc(v) == IF v >= 0 THEN v \div Res ELSE -((-v) \div Res)

\* Series.dropna().values
IsValid(v) == v # NaN
dropna(raw) ==
    LET kept == SelectSeq(raw, IsValid)
    IN  [i \in 1..Len(kept) |-> kept[i][1]]

\* len(self.col_data), for a loaded column.
Length == Len(col_data[1])

(***************************************************************************)
(* _calculate_mean                                                         *)
(***************************************************************************)
RECURSIVE Sum(_, _, _)
\* data[lo] + ... + data[hi], 1-based.
Sum(data, lo, hi) == IF lo > hi THEN 0 ELSE data[lo] + Sum(data, lo + 1, hi)

\* np.mean over the slice col_data[start : end + 1] (0-based, end exclusive
\* bound end + 1): the pair <<sum, count>>.
Slice(data, start, end) == <<Sum(data, start + 1, end + 1), end - start + 1>>

\* f"{mean_val:.4f}": sum/n rounded to the nearest multiple of 1/10000
\* (ties to even), as the integer number of ten-thousandths.
Format4(sum, n) ==
    LET num == Abs(sum) * 10000
        q   == num \div n
        r   == num % n
        up  == (2 * r > n) \/ (2 * r = n /\ q % 2 = 1)
        m   == IF up THEN q + 1 ELSE q
    IN  IF sum >= 0 THEN m ELSE -m

\* The text set in mean_var: None is the placeholder "--", Some(q) the
\* number q/10000 printed with four decimals.
Placeholder == None

MeanText(data, s, e) ==
    LET start == Max(0, s)
        end   == Min(Len(data) - 1, e)
    IN  IF start >= end THEN Placeholder
        ELSE LET sl == Slice(data, start, end) IN Some(Format4(sl[1], sl[2]))

(***************************************************************************)
(* Texts.  A text is a sequence of characters.  The label "选中区域平均值"  *)
(* is written Label and the full-width colon "：" is written ":"; the hint  *)
(* texts "", "暂无有效数据", "复制成功", "复制失败" are the strings NoHint,  *)
(* NoValidData, Copied, CopyFailed.                                        *)
(***************************************************************************)
Label == <<"m", "e", "a", "n">>
Colon == ":"
NoHint == ""
NoValidData == "no valid data"
Copied == "copied"
CopyFailed == "copy failed"

\* What the clipboard holds before the program touches it.
Other == <<"x">>

Digit(d) == <<"0", "1", "2", "3", "4", "5", "6", "7", "8", "9">>[d + 1]

RECURSIVE Decimal(_)
\* str(n) for a natural number n.
Decimal(n) ==
    IF n < 10 THEN <<Digit(n)>> ELSE Append(Decimal(n \div 10), Digit(n % 10))

\* The characters of f"{mean_val:.4f}" for the value q/10000.
Fixed4(q) ==
    LET a == Abs(q)
        f == a % 10000
    IN  (IF q < 0 THEN <<"-">> ELSE <<>>) \o Decimal(a \div 10000) \o <<".">>
        \o <<Digit(f \div 1000), Digit((f \div 100) % 10),
             Digit((f \div 10) % 10), Digit(f % 10)>>

\* mean_var.get(): "选中区域平均值：--" or f"选中区域平均值：{mean_val:.4f}".
mean_text(mv) ==
    Label \o <<Colon>> \o (IF mv = Placeholder THEN <<"-", "-">> ELSE Fixed4(mv[1]))

\* pat in text
Contains(text, pat) ==
    \E i \in 1..(Len(text) - Len(pat) + 1) :
        SubSeq(text, i, i + Len(pat) - 1) = pat

\* text.split(sep)[1], for a text that holds the character sep: what lies
\* between the first sep and the next one (or the end of the text).
SplitSecond(text, sep) ==
    LET first == CHOOSE i \in 1..Len(text) :
                     text[i] = sep /\ \A j \in 1..(i - 1) : text[j] # sep
        rest  == SubSeq(text, first + 1, Len(text))
    IN  IF \E i \in 1..Len(rest) : rest[i] = sep
        THEN LET next == CHOOSE i \in 1..Len(rest) :
                             rest[i] = sep /\ \A j \in 1..(i - 1) : rest[j] # sep
             IN  SubSeq(rest, 1, next - 1)
        ELSE rest

RECURSIVE strip(_)
\* text.strip(): without the leading and trailing blanks.
strip(text) ==
    IF text = <<>> THEN text
    ELSE IF Head(text) = " " THEN strip(Tail(text))
    ELSE IF text[Len(text)] = " " THEN strip(SubSeq(text, 1, Len(text) - 1))
    ELSE text

(***************************************************************************)
(* _draw_selection_rect                                                    *)
(***************************************************************************)
\* The end index after "if start_idx >= end_idx: end_idx = start_idx + 1".
DrawEnd(s, e) == IF s >= e THEN s + 1 ELSE e

\* The rectangles on the axes after the old one is removed (a removal of a
\* rectangle no longer on the axes raises and is swallowed) and the span
\* [s, e] is added by axvspan.
RemoveOne(ps, r) ==
    IF \E i \in 1..Len(ps) : ps[i] = r
    THEN LET i == CHOOSE j \in 1..Len(ps) : ps[j] = r
         IN  SubSeq(ps, 1, i - 1) \o SubSeq(ps, i + 1, Len(ps))
    ELSE ps
DrawPatchesKeepsOld(ps, old, s, e) == Append(ps, <<s, e>>)
DrawPatches(ps, old, s, e) ==
    Append(IF old = None THEN ps ELSE RemoveOne(ps, old[1]), <<s, e>>)

\* The x-limits autoscaled to contain the span, with the margin.
Autoscale(lim, e) == <<lim[1], Max(lim[2], Idx(e) + Margin)>>

(***************************************************************************)
(* History.  last records the last operation: its kind, its argument and   *)
(* the state it was applied to.  trip follows a two-gesture round trip     *)
(* (see RoundTrip below).  Neither is read by an operation.                *)
(***************************************************************************)
\* arg is the xdata of a pointer event (None outside the axes), col_name the
\* column of a load_column_data ("" otherwise), ok the outcome of load_file.
Op(kind, arg, name, ok) ==
    [ op |-> kind, arg |-> arg, col_name |-> name, ok |-> ok,
      col_data |-> col_data,
      start_idx |-> start_idx, end_idx |-> end_idx,
      is_dragging |-> is_dragging, drag_type |-> drag_type,
      mean_var |-> mean_var, copy_hint_var |-> copy_hint_var,
      clipboard |-> clipboard, timers |-> timers, outcome |-> "none" ]

NoTrip == [phase |-> "none", v |-> 0, e |-> 0, hit |-> NoDrag, moved |-> FALSE]

Init ==
    /\ df = None
    /\ col_data = None
    /\ start_idx = 0
    /\ end_idx = DefaultSpan
    /\ is_dragging = FALSE
    /\ drag_type = NoDrag
    /\ drag_offset = None
    /\ mean_var = Placeholder
    /\ selection_rect = None
    /\ patches = <<>>
    /\ xlim = <<0, Idx(1)>>
    /\ copy_hint_var = NoHint
    /\ copy_hint_color = "green"
    /\ clipboard = Other
    /\ timers = 0
    /\ last = Op("init", None, "", TRUE)
    /\ trip = NoTrip

(***************************************************************************)
(* load_file: the dialog is cancelled or the read fails (ok = FALSE,       *)
(* nothing changes), or the table is read.                                 *)
(***************************************************************************)
load_file(ok) ==
    /\ df' = IF ok THEN Some(Table) ELSE df
    /\ UNCHANGED <<col_data, start_idx, end_idx, is_dragging, drag_type,
                   drag_offset, mean_var, selection_rect, patches, xlim>>
    /\ UNCHANGED copy_vars

(***************************************************************************)
(* load_column_data: the combobox is enabled once a table is read, and     *)
(* offers its columns.                                                     *)
(***************************************************************************)
\* min(20000, len(self.col_data) - 1)
ResetEndOffByOne(n) == Min(DefaultSpan, n)
ResetEnd(n) == Min(DefaultSpan, n - 1)

load_column_data_ResetsFirst(col_name) ==
    /\ df # None
    /\ LET data == dropna(df[1][col_name])
           e    == DrawEnd(0, ResetEnd(Len(data)))
       IN  /\ col_data' = Some(data)
           /\ start_idx' = 0
           /\ end_idx' = e
           /\ IF Len(data) = 0
              THEN UNCHANGED <<mean_var, selection_rect, patches, xlim>>
              ELSE /\ patches' = DrawPatches(<<>>, selection_rect, 0, e)
                   /\ selection_rect' = Some(<<0, e>>)
                   /\ xlim' = Autoscale(<<-Margin, Idx(Len(data) - 1) + Margin>>, e)
                   /\ mean_var' = MeanText(data, 0, e)
    /\ UNCHANGED <<df, is_dragging, drag_type, drag_offset>>
    /\ UNCHANGED copy_vars
load_column_data(col_name) ==
    /\ df # None
    /\ LET data == dropna(df[1][col_name])
           e    == DrawEnd(0, ResetEnd(Len(data)))
       IN  /\ col_data' = Some(data)
           /\ IF Len(data) = 0
              THEN \* the warning is raised and the handler ends here
                   UNCHANGED <<start_idx, end_idx, mean_var, selection_rect,
                               patches, xlim>>
              ELSE /\ start_idx' = 0
                   /\ end_idx' = e
                   \* ax.clear() and ax.plot(): the axes hold the line only
                   /\ patches' = DrawPatches(<<>>, selection_rect, 0, e)
                   /\ selection_rect' = Some(<<0, e>>)
                   /\ xlim' = Autoscale(<<-Margin, Idx(Len(data) - 1) + Margin>>, e)
                   /\ mean_var' = MeanText(data, 0, e)
    /\ UNCHANGED <<df, is_dragging, drag_type, drag_offset>>
    /\ UNCHANGED copy_vars

(***************************************************************************)
(* Pointer events.  An event carries xdata, None when the pointer is       *)
(* outside the axes (event.inaxes != self.ax).                             *)
(***************************************************************************)
\* The coordinates of the pointer positions inside the axes.
InAxes == xlim[1]..xlim[2]
Events == {None} \cup {Some(x) : x \in InAxes}

\* The classification of a handled Press at x: the drag type it starts,
\* NoDrag when it hits nothing.
HitTestEndFirst(x, s, e) ==
    IF Abs(x - Idx(e)) < Idx(Tolerance) THEN "end"
    ELSE IF Abs(x - Idx(s)) < Idx(Tolerance) THEN "start"
    ELSE IF Idx(s) <= x /\ x <= Idx(e) THEN "move"
    ELSE NoDrag
HitTest(x, s, e) ==
    IF Abs(x - Idx(s)) < Idx(Tolerance) THEN "start"
    ELSE IF Abs(x - Idx(e)) < Idx(Tolerance) THEN "end"
    ELSE IF Idx(s) <= x /\ x <= Idx(e) THEN "move"
    ELSE NoDrag

\* self.drag_offset = event.xdata - self.start_idx
PressOffsetTruncated(x, s) == Idx(Trunc(x) - s)
PressOffset(x, s) == x - Idx(s)

on_mouse_press(event) ==
    /\ IF col_data = None \/ event = None
       THEN UNCHANGED <<is_dragging, drag_type, drag_offset>>
       ELSE LET x   == event[1]
                hit == HitTest(x, start_idx, end_idx)
            IN  IF hit = NoDrag
                THEN UNCHANGED <<is_dragging, drag_type, drag_offset>>
                ELSE /\ is_dragging' = TRUE
                     /\ drag_type' = hit
                     /\ drag_offset' = IF hit = "move"
                                       THEN Some(PressOffset(x, start_idx))
                                       ELSE drag_offset
    /\ UNCHANGED <<df, col_data, start_idx, end_idx, mean_var,
                   selection_rect, patches, xlim>>
    /\ UNCHANGED copy_vars

\* new_x = max(0, min(len(self.col_data) - 1, event.xdata))
ClampX(n, x) == Max(0, Min(Idx(n - 1), x))

\* The pair <<start_idx, end_idx>> assigned by the three drag branches,
\* before _draw_selection_rect.
DragStartUnbounded(n, x, s, e) == <<Trunc(ClampX(n, x)), e>>
DragStart(n, x, s, e) == <<Min(Trunc(ClampX(n, x)), e - 1), e>>

DragEndPushesStart(n, x, s, e) ==
    LET new_end == Trunc(ClampX(n, x)) IN <<Min(s, new_end - 1), new_end>>
DragEnd(n, x, s, e) == <<s, Max(Trunc(ClampX(n, x)), s + 1)>>

DragMoveClampEnd(n, x, s, e, off) ==
    LET new_start == Max(0, Min(Idx(n - (e - s)), ClampX(n, x) - off))
        new_end   == Min(Idx(n - 1), new_start + Idx(e - s))
    IN  <<Trunc(new_start), Trunc(new_end)>>
DragMove(n, x, s, e, off) ==
    LET new_start == Max(0, Min(Idx(n - (e - s)), ClampX(n, x) - off))
        new_end   == new_start + Idx(e - s)
    IN  <<Trunc(new_start), Trunc(new_end)>>

on_mouse_move_LeaveEndsDrag(event) ==
    /\ IF ~is_dragging \/ col_data = None \/ event = None
       THEN UNCHANGED <<start_idx, end_idx, mean_var, selection_rect,
                        patches, xlim>>
       ELSE LET x  == event[1]
                n  == Length
                se == CASE drag_type = "start" ->
                             DragStart(n, x, start_idx, end_idx)
                        [] drag_type = "end" ->
                             DragEnd(n, x, start_idx, end_idx)
                        [] drag_type = "move" ->
                             DragMove(n, x, start_idx, end_idx, drag_offset[1])
                        [] OTHER -> <<start_idx, end_idx>>
                e  == DrawEnd(se[1], se[2])
            IN  /\ start_idx' = se[1]
                /\ end_idx' = e
                /\ patches' = DrawPatches(patches, selection_rect, se[1], e)
                /\ selection_rect' = Some(<<se[1], e>>)
                /\ xlim' = Autoscale(xlim, e)
                /\ mean_var' = MeanText(col_data[1], se[1], e)
    /\ is_dragging' = (is_dragging /\ event # None)
    /\ drag_type' = IF event = None THEN NoDrag ELSE drag_type
    /\ UNCHANGED <<df, col_data, drag_offset>>
    /\ UNCHANGED copy_vars
on_mouse_move(event) ==
    /\ IF ~is_dragging \/ col_data = None \/ event = None
       THEN UNCHANGED <<start_idx, end_idx, mean_var, selection_rect,
                        patches, xlim>>
       ELSE LET x  == event[1]
                n  == Length
                se == CASE drag_type = "start" ->
                             DragStart(n, x, start_idx, end_idx)
                        [] drag_type = "end" ->
                             DragEnd(n, x, start_idx, end_idx)
                        [] drag_type = "move" ->
                             DragMove(n, x, start_idx, end_idx, drag_offset[1])
                        [] OTHER -> <<start_idx, end_idx>>
                e  == DrawEnd(se[1], se[2])
            IN  /\ start_idx' = se[1]
                /\ end_idx' = e
                /\ patches' = DrawPatches(patches, selection_rect, se[1], e)
                /\ selection_rect' = Some(<<se[1], e>>)
                /\ xlim' = Autoscale(xlim, e)
                /\ mean_var' = MeanText(col_data[1], se[1], e)
    /\ UNCHANGED <<df, col_data, is_dragging, drag_type, drag_offset>>
    /\ UNCHANGED copy_vars

on_mouse_release_KeepsDragging ==
    /\ drag_type' = NoDrag
    /\ UNCHANGED <<df, col_data, start_idx, end_idx, is_dragging, drag_offset,
                   mean_var, selection_rect, patches, xlim>>
    /\ UNCHANGED copy_vars
on_mouse_release_KeepsType ==
    /\ is_dragging' = FALSE
    /\ UNCHANGED <<df, col_data, start_idx, end_idx, drag_type, drag_offset,
                   mean_var, selection_rect, patches, xlim>>
    /\ UNCHANGED copy_vars
\* The handler does not read its event.
on_mouse_release ==
    /\ is_dragging' = FALSE
    /\ drag_type' = NoDrag
    /\ UNCHANGED <<df, col_data, start_idx, end_idx, drag_offset, mean_var,
                   selection_rect, patches, xlim>>
    /\ UNCHANGED copy_vars

(***************************************************************************)
(* copy_result_to_clipboard and the callbacks it schedules.  Every call    *)
(* schedules root.after(3000, lambda: self.copy_hint_var.set("")); timers  *)
(* counts the callbacks not yet run, which Tk runs in the order they were  *)
(* scheduled.  A clipboard call of Tk can raise TclError; outcome names    *)
(* the call that raises, "ok" when none does.  The handler first clears    *)
(* the hint; every branch then sets it again.                              *)
(***************************************************************************)
MaxTimers == 2

ClipboardOutcomes == {"ok", "clear_raises", "append_raises", "update_raises"}

\* The hint after the try block.
HintAlwaysCopied(outcome) == Copied
HintAfter(outcome) == IF outcome = "ok" THEN Copied ELSE CopyFailed

\* The clipboard after clipboard_clear(), clipboard_append(value), update().
ClipboardAfter(outcome, value) ==
    CASE outcome = "clear_raises"  -> clipboard
      [] outcome = "append_raises" -> <<>>
      [] OTHER                     -> value

\* The pending callbacks after one more root.after.
Schedule(n) == n + 1

\* The branch taken when the mean text holds "：--": no clipboard call.
copy_result_to_clipboard_no_data ==
    /\ timers < MaxTimers
    /\ Contains(mean_text(mean_var), <<Colon, "-", "-">>)
    /\ copy_hint_var' = NoValidData
    /\ copy_hint_color' = "red"
    /\ timers' = Schedule(timers)
    /\ UNCHANGED clipboard

\* The branch that copies mean_text.split("：")[1].strip().
copy_result_to_clipboard_value(outcome) ==
    /\ timers < MaxTimers
    /\ ~Contains(mean_text(mean_var), <<Colon, "-", "-">>)
    /\ LET mean_value == strip(SplitSecond(mean_text(mean_var), Colon))
       IN  clipboard' = ClipboardAfter(outcome, mean_value)
    /\ copy_hint_var' = HintAfter(outcome)
    /\ copy_hint_color' = IF outcome = "ok" THEN "green" ELSE "red"
    /\ timers' = Schedule(timers)

copy_result_to_clipboard(outcome) ==
    /\ \/ outcome = "none" /\ copy_result_to_clipboard_no_data
       \/ outcome \in ClipboardOutcomes /\ copy_result_to_clipboard_value(outcome)
    /\ UNCHANGED <<df, col_data, start_idx, end_idx, is_dragging, drag_type,
                   drag_offset, mean_var, selection_rect, patches, xlim>>

\* lambda: self.copy_hint_var.set(""), the oldest pending callback.
clear_copy_hint ==
    /\ timers > 0
    /\ timers' = timers - 1
    /\ copy_hint_var' = NoHint
    /\ UNCHANGED <<df, col_data, start_idx, end_idx, is_dragging, drag_type,
                   drag_offset, mean_var, selection_rect, patches, xlim,
                   copy_hint_color, clipboard>>

(***************************************************************************)
(* The program: any operation at any time, each recorded in last.          *)
(***************************************************************************)
Record(kind, arg, name, ok) ==
    last' = Op(kind, arg, name, ok) /\ UNCHANGED trip

Next ==
    \/ \E ok \in BOOLEAN : load_file(ok) /\ Record("load_file", None, "", ok)
    \/ \E c \in Columns :
          load_column_data(c) /\ Record("load_column", None, c, TRUE)
    \/ \E ev \in Events : on_mouse_press(ev) /\ Record("press", ev, "", TRUE)
    \/ \E ev \in Events : on_mouse_move(ev) /\ Record("move", ev, "", TRUE)
    \/ on_mouse_release /\ Record("release", None, "", TRUE)

Spec == Init /\ [][Next]_vars
(***************************************************************************)
(* The round trip: a first gesture (Press on the start edge, Moves to an   *)
(* in-bounds position left of end, Release) and a second gesture (a Press  *)
(* classified as an end-edge grab or as a miss, Moves, Release).  trip     *)
(* follows the events: phase p1, m1, r1 after the Press, Move and Release  *)
(* of the first gesture, p2, m2, r2 after those of the second; v is the    *)
(* index of the last Move of the first gesture, e the end index at its     *)
(* Release, hit the classification of the second Press, moved whether the  *)
(* second gesture had a Move inside the axes.  Any other event ends the    *)
(* round trip.                                                             *)
(***************************************************************************)
\* The classification of a Press: a Press the handler ignores is a miss.
Classify(ev) ==
    IF col_data = None \/ ev = None THEN NoDrag
    ELSE HitTest(ev[1], start_idx, end_idx)

TripStep(kind, ev) ==
    CASE kind = "press" ->
           IF Classify(ev) = "start"
           THEN [NoTrip EXCEPT !.phase = "p1"]
           ELSE IF trip.phase = "r1" /\ Classify(ev) \in {"end", NoDrag}
           THEN [trip EXCEPT !.phase = "p2", !.hit = Classify(ev)]
           ELSE NoTrip
      [] kind = "move" ->
           IF trip.phase \in {"p1", "m1"}
           THEN IF /\ ev # None /\ col_data # None
                   /\ 0 <= ev[1] /\ ev[1] <= Idx(Length - 1)
                   /\ Trunc(ev[1]) < end_idx
                THEN [trip EXCEPT !.phase = "m1", !.v = Trunc(ev[1])]
                ELSE NoTrip
           ELSE IF trip.phase \in {"p2", "m2"}
           THEN [trip EXCEPT !.phase = "m2",
                             !.moved = trip.moved \/ ev # None]
           ELSE NoTrip
      [] kind = "release" ->
           IF trip.phase = "m1"
           THEN [trip EXCEPT !.phase = "r1", !.e = end_idx]
           ELSE IF trip.phase \in {"p2", "m2"}
           THEN [trip EXCEPT !.phase = "r2"]
           ELSE NoTrip
      [] OTHER -> NoTrip

Follow(kind, ev) == trip' = TripStep(kind, ev) /\ UNCHANGED last

NextTrip ==
    \/ \E ok \in BOOLEAN : load_file(ok) /\ Follow("load_file", None)
    \/ \E c \in Columns : load_column_data(c) /\ Follow("load_column", None)
    \/ \E ev \in Events : on_mouse_press(ev) /\ Follow("press", ev)
    \/ \E ev \in Events : on_mouse_move(ev) /\ Follow("move", ev)
    \/ on_mouse_release /\ Follow("release", None)

SpecTrip == Init /\ [][NextTrip]_vars

(***************************************************************************)
(* The program with the copy button.  The pointer is outside the plot or   *)
(* at one of the first three indices, and last records the copies and the  *)
(* callbacks only: Quiet is the record of any other operation.             *)
(***************************************************************************)
Quiet ==
    [ op |-> "other", arg |-> None, col_name |-> "", ok |-> TRUE,
      col_data |-> None, start_idx |-> 0, end_idx |-> 0,
      is_dragging |-> FALSE, drag_type |-> NoDrag, mean_var |-> Placeholder,
      copy_hint_var |-> NoHint, clipboard |-> <<>>, timers |-> 0,
      outcome |-> "none" ]

Skip == last' = Quiet /\ UNCHANGED trip

RecordCopy(kind, outcome) ==
    last' = [Op(kind, None, "", TRUE) EXCEPT !.outcome = outcome]
    /\ UNCHANGED trip

EventsCopy == {None, Some(Idx(0)), Some(Idx(1)), Some(Idx(2))}

NextCopy ==
    \/ \E ok \in BOOLEAN : load_file(ok) /\ Skip
    \/ \E c \in Columns : load_column_data(c) /\ Skip
    \/ \E ev \in EventsCopy : on_mouse_press(ev) /\ Skip
    \/ \E ev \in EventsCopy : on_mouse_move(ev) /\ Skip
    \/ on_mouse_release /\ Skip
    \/ \E outcome \in ClipboardOutcomes \cup {"none"} :
          copy_result_to_clipboard(outcome) /\ RecordCopy("copy", outcome)
    \/ clear_copy_hint /\ RecordCopy("timer", "none")

SpecCopy == Init /\ [][NextCopy]_vars

(***************************************************************************)
(* Properties.  They are stated over last, the record of the operation     *)
(* that produced the current state, and the current state.                 *)
(***************************************************************************)
\* The last operation was a Press with the pointer inside the axes.
PressAt == last.op = "press" /\ last.arg # None
\* The last operation was a Press the handler acted on.
PressHandled == PressAt /\ last.col_data # None
\* The last operation was a Move handled in drag mode m.
MoveHandled(m) ==
    /\ last.op = "move" /\ last.arg # None
    /\ last.is_dragging /\ last.col_data # None
    /\ last.drag_type = m
\* The last operation loaded a column with at least one valid value.
Loaded ==
    /\ last.op = "load_column"
    /\ col_data # None /\ Length >= 1
\* The pointer coordinate of the last event.
LastX == last.arg[1]
\* x is within the tolerance of the edge at index i.
Near(x, i) == Abs(x - Idx(i)) < Idx(Tolerance)

\* C1: once a column (of cleaned length >= 2, the lengths a reset accepts)
\* has been loaded, 0 <= start < end <= length - 1 after every operation.
C1_RangeInvariant ==
    (col_data # None /\ Length >= 2) =>
        (0 <= start_idx /\ start_idx < end_idx /\ end_idx <= Length - 1)

\* C2: a Move handled in whole-range drag mode never changes the width
\* end - start.
C2_WidthPreserved ==
    MoveHandled("move") =>
        end_idx - start_idx = last.end_idx - last.start_idx
\* A whole-range Move at a fractional pointer position shifted the range.
C2_Witness ==
    /\ MoveHandled("move")
    /\ start_idx # last.start_idx
    /\ LastX % Res # 0
    /\ end_idx - start_idx = last.end_idx - last.start_idx

\* C3: after a Move handled in whole-range drag mode the range stays within
\* the data bounds, 0 <= start and end <= length - 1.
C3_MoveInBounds ==
    MoveHandled("move") => (0 <= start_idx /\ end_idx <= Length - 1)

\* C4: a Move handled in start-edge drag mode, for any pointer position,
\* yields start in [0, end - 1] and leaves end unchanged.
C4_StartClamped ==
    MoveHandled("start") =>
        /\ 0 <= start_idx /\ start_idx <= end_idx - 1
        /\ end_idx = last.end_idx
\* A start-edge Move with the pointer at or beyond length: start = end - 1.
C4_Witness ==
    /\ MoveHandled("start")
    /\ Length >= 2
    /\ LastX >= Idx(Length)
    /\ start_idx = end_idx - 1
    /\ start_idx # last.start_idx
    /\ end_idx = last.end_idx
\* A start-edge Move with the pointer below 0: start = 0.
C4_WitnessBelow ==
    /\ MoveHandled("start")
    /\ LastX < 0
    /\ last.start_idx > 0
    /\ start_idx = 0

\* C5: a Move handled in end-edge drag mode (on a column of cleaned length
\* >= 2) leaves start unchanged and yields end in [start + 1, length - 1].
C5_EndClamped ==
    (MoveHandled("end") /\ Length >= 2) =>
        /\ start_idx = last.start_idx
        /\ start_idx + 1 <= end_idx /\ end_idx <= Length - 1

\* C6: a Press at a position within the tolerance of both start and end
\* always starts a start-edge drag.
C6_TieBreak ==
    (PressAt /\ Near(LastX, last.start_idx) /\ Near(LastX, last.end_idx)) =>
        (is_dragging /\ drag_type = "start")
\* Such a Press strictly nearer to end than to start, from Idle.
C6_Witness ==
    /\ PressAt /\ Near(LastX, last.start_idx) /\ Near(LastX, last.end_idx)
    /\ Abs(LastX - Idx(last.end_idx)) < Abs(LastX - Idx(last.start_idx))
    /\ ~last.is_dragging
    /\ is_dragging /\ drag_type = "start"

\* C7: a Press at x in Idle that is within the tolerance of neither edge
\* starts a whole-range drag with offset x - start exactly when
\* start <= x <= end and otherwise leaves the handler Idle; no Press
\* changes start or end.
C7_InteriorOrMiss ==
    /\ last.op = "press" =>
          (start_idx = last.start_idx /\ end_idx = last.end_idx)
    /\ (PressAt /\ ~last.is_dragging
          /\ ~Near(LastX, last.start_idx) /\ ~Near(LastX, last.end_idx)) =>
          IF Idx(last.start_idx) <= LastX /\ LastX <= Idx(last.end_idx)
          THEN /\ is_dragging /\ drag_type = "move"
               /\ drag_offset = Some(LastX - Idx(last.start_idx))
          ELSE ~is_dragging /\ drag_type = NoDrag
\* An interior Press at a fractional position, with start > 0.
C7_Witness ==
    /\ PressAt /\ ~last.is_dragging
    /\ ~Near(LastX, last.start_idx) /\ ~Near(LastX, last.end_idx)
    /\ LastX % Res # 0 /\ last.start_idx > 0
    /\ drag_type = "move"
    /\ drag_offset = Some(LastX - Idx(last.start_idx))
\* A Press outside the selection and the tolerance: the handler stays Idle.
C7_WitnessMiss ==
    /\ PressHandled /\ ~last.is_dragging
    /\ ~Near(LastX, last.start_idx) /\ ~Near(LastX, last.end_idx)
    /\ LastX > Idx(last.end_idx)
    /\ ~is_dragging /\ drag_type = NoDrag

\* C8: loading a column of cleaned length N >= 2 after operations on a
\* previously loaded column sets start = 0 and end = min(DefaultSpan, N - 1).
C8_LoadResets ==
    (Loaded /\ Length >= 2 /\ last.col_data # None) =>
        /\ start_idx = 0
        /\ end_idx = (IF DefaultSpan <= Length - 1 THEN DefaultSpan
                      ELSE Length - 1)
\* A column longer than the default span loaded over another column whose
\* range had been dragged away from its default.
C8_Witness ==
    /\ Loaded /\ Length - 1 > DefaultSpan
    /\ last.col_data # None /\ Len(last.col_data[1]) >= 2
    /\ last.col_data # col_data
    /\ last.start_idx > 0
    /\ start_idx = 0 /\ end_idx = DefaultSpan
\* A column shorter than the default span loaded the same way.
C8_WitnessShort ==
    /\ Loaded /\ Length >= 2 /\ Length - 1 < DefaultSpan
    /\ last.col_data # None /\ last.col_data # col_data
    /\ last.start_idx > 0
    /\ start_idx = 0 /\ end_idx = Length - 1

RECURSIVE SumAt(_, _, _)
\* The sum of the column values at the 0-based indices i..j (an index
\* outside the column holds no value).
SumAt(data, i, j) ==
    IF i > j THEN 0
    ELSE (IF 0 <= i /\ i <= Len(data) - 1 THEN data[i + 1] ELSE 0)
         + SumAt(data, i + 1, j)

\* The displayed number q (in ten-thousandths) is sum/n to four decimals.
IsMean4(q, sum, n) ==
    LET d == q * n - 10000 * sum IN 2 * Abs(d) <= n

\* The last operation was a Move the handler acted on, in any drag mode.
AnyMoveHandled ==
    /\ last.op = "move" /\ last.arg # None
    /\ last.is_dragging /\ last.col_data # None

\* C10: after every column load and every selection-changing Move the
\* displayed mean is the arithmetic mean of the column values at indices
\* start..end inclusive (sum divided by end - start + 1), and the
\* placeholder is displayed only if start >= end after clamping start to
\* >= 0 and end to <= length - 1.
C10_MeanDisplayed ==
    ((Loaded \/ AnyMoveHandled) /\ Length >= 2) =>
        IF mean_var = Placeholder
        THEN Max(0, start_idx) >= Min(Length - 1, end_idx)
        ELSE IsMean4(mean_var[1], SumAt(col_data[1], start_idx, end_idx),
                     end_idx - start_idx + 1)
\* The same, in the states whose range lies within the column.
C10_MeanInBounds ==
    ((Loaded \/ AnyMoveHandled) /\ Length >= 2 /\ end_idx <= Length - 1) =>
        /\ mean_var # Placeholder
        /\ IsMean4(mean_var[1], SumAt(col_data[1], start_idx, end_idx),
                   end_idx - start_idx + 1)

\* C9: after a Press on the start edge, a Move to an in-bounds index
\* v < end and a Release, start = v and the handler is Idle; through a
\* following gesture whose Press is an end-edge grab or a miss start stays
\* v, and the handler is Idle again after its Release.
C9_RoundTrip ==
    /\ trip.phase \in {"r1", "p2", "m2", "r2"} => start_idx = trip.v
    /\ trip.phase \in {"r1", "r2"} => (~is_dragging /\ drag_type = NoDrag)
\* A round trip whose first gesture moved start and whose second gesture
\* grabbed the end edge and moved end.
C9_Witness ==
    /\ trip.phase = "r2" /\ trip.hit = "end" /\ trip.moved
    /\ trip.v > 0 /\ start_idx = trip.v
    /\ end_idx # trip.e
    /\ ~is_dragging
\* A round trip whose second Press missed the selection.
C9_WitnessMiss ==
    /\ trip.phase = "r2" /\ trip.hit = NoDrag /\ trip.moved
    /\ trip.v > 0 /\ start_idx = trip.v
    /\ ~is_dragging

\* C12: selecting a column with no valid value leaves start, end and the
\* displayed mean as they were.
C12_EmptyColumnKeepsState ==
    (last.op = "load_column" /\ Length = 0) =>
        /\ start_idx = last.start_idx /\ end_idx = last.end_idx
        /\ mean_var = last.mean_var
\* An empty column selected while a dragged range and a number are shown.
C12_Witness ==
    /\ last.op = "load_column" /\ Length = 0
    /\ last.col_data # None /\ Len(last.col_data[1]) >= 2
    /\ start_idx > 0 /\ start_idx = last.start_idx
    /\ end_idx = last.end_idx
    /\ mean_var # Placeholder /\ mean_var = last.mean_var

\* C13: selecting a column of cleaned length <= 1 establishes or changes
\* no selection range.
C13_ShortColumnNoRange ==
    (last.op = "load_column" /\ Length <= 1) =>
        (start_idx = last.start_idx /\ end_idx = last.end_idx)

\* The column the last operation was applied to had at least two values.
WasLoaded == last.col_data # None /\ Len(last.col_data[1]) >= 2

\* C14: no operation replaces the data of a loaded column without
\* resetting the selection range (to start = 0 and the default span
\* clamped to the new column, at least 1).
C14_ReplacedTogether ==
    (WasLoaded /\ col_data # last.col_data) =>
        /\ start_idx = 0
        /\ end_idx = Max(1, Min(DefaultSpan, Length - 1))

\* C15 as claimed: a Move with the pointer outside the plot during an
\* active drag resets the drag state to inactive.
C15_LeaveEndsDrag ==
    (last.op = "move" /\ last.arg = None /\ last.is_dragging /\ WasLoaded) =>
        (~is_dragging /\ drag_type = NoDrag)
\* C15 as amended: a Move with the pointer outside the plot during an
\* active drag is ignored; the drag state, the selection and the displayed
\* mean stay as they were, so the drag goes on when the pointer returns.
C15_LeaveIgnored ==
    (last.op = "move" /\ last.arg = None /\ last.is_dragging) =>
        /\ is_dragging /\ drag_type = last.drag_type
        /\ drag_type \in {"start", "end", "move"}
        /\ start_idx = last.start_idx /\ end_idx = last.end_idx
        /\ mean_var = last.mean_var
\* A Move outside the plot in the middle of a whole-range drag.
C15_Witness ==
    /\ last.op = "move" /\ last.arg = None /\ last.is_dragging
    /\ last.col_data # None /\ Len(last.col_data[1]) >= 2
    /\ is_dragging /\ drag_type = "move"

\* C16: a Release always leaves the handler Idle, the handler stays Idle
\* until a Press hits an edge or the interior, and a Move in Idle changes
\* neither start, end nor the displayed mean.
C16_ReleaseEndsDrag ==
    /\ last.op = "release" => (~is_dragging /\ drag_type = NoDrag)
    /\ (~last.is_dragging /\ is_dragging) =>
          (PressHandled /\ HitTest(LastX, last.start_idx, last.end_idx) # NoDrag)
    /\ (last.op = "move" /\ ~last.is_dragging) =>
          /\ start_idx = last.start_idx /\ end_idx = last.end_idx
          /\ mean_var = last.mean_var
          /\ ~is_dragging
\* A Move inside the plot, over a loaded column, after a Release.
C16_Witness ==
    /\ last.op = "move" /\ last.arg # None /\ ~last.is_dragging
    /\ last.col_data # None /\ Len(last.col_data[1]) >= 2
    /\ last.start_idx > 0
    /\ start_idx = last.start_idx /\ end_idx = last.end_idx
    /\ ~is_dragging
\* A Release during a drag.
C16_WitnessRelease ==
    /\ last.op = "release" /\ last.is_dragging /\ ~is_dragging

\* C18: at most one selection rectangle is on the plot, and after every
\* column load and every handled Move it spans exactly [start, end].
C18_OneRectangle ==
    /\ Len(patches) <= 1
    /\ (Loaded \/ AnyMoveHandled) => patches = << <<start_idx, end_idx>> >>
\* A handled Move replaced a rectangle of another span.
C18_Witness ==
    /\ AnyMoveHandled
    /\ start_idx # last.start_idx
    /\ patches = << <<start_idx, end_idx>> >>

\* C19: while a column of cleaned length >= 2 is loaded, a number is
\* displayed, never the placeholder.
C19_NumberDisplayed ==
    (col_data # None /\ Length >= 2) => mean_var # Placeholder

\* C20: is_dragging is true exactly when drag_type is start, end or move,
\* and whenever drag_type is move an offset has been recorded.
C20_DragStateConsistent ==
    /\ is_dragging <=> drag_type \in {"start", "end", "move"}
    /\ drag_type = "move" => drag_offset # None
\* A whole-range Move reading the recorded offset.
C20_Witness ==
    /\ MoveHandled("move") /\ is_dragging /\ drag_type = "move"
    /\ drag_offset # None /\ drag_offset[1] > 0
    /\ start_idx # last.start_idx

\* Reading a text back as a number: the text is an optional "-", one or
\* more digits, ".", and four digits; its value is in ten-thousandths.
IsDigit(c) == c \in {"0", "1", "2", "3", "4", "5", "6", "7", "8", "9"}
DigitValue(c) == CHOOSE d \in 0..9 : Digit(d) = c

RECURSIVE Number(_)
Number(t) ==
    IF t = <<>> THEN 0
    ELSE 10 * Number(SubSeq(t, 1, Len(t) - 1)) + DigitValue(t[Len(t)])

Unsigned(t) == IF t # <<>> /\ Head(t) = "-" THEN Tail(t) ELSE t

IsNumericText(t) ==
    LET u == Unsigned(t)
    IN  /\ Len(u) >= 6
        /\ u[Len(u) - 4] = "."
        /\ \A i \in 1..Len(u) : i # Len(u) - 4 => IsDigit(u[i])

NumericValue(t) ==
    LET u == Unsigned(t)
        v == 10000 * Number(SubSeq(u, 1, Len(u) - 5))
             + Number(SubSeq(u, Len(u) - 3, Len(u)))
    IN  IF u = t THEN v ELSE -v

\* The clipboard holds exactly the number the mean label displayed.
HoldsMean == IsNumericText(clipboard) /\ NumericValue(clipboard) = last.mean_var[1]

\* C11 (as stated): a copy while the placeholder is displayed sets the "no
\* valid data" hint and leaves the clipboard as it was; a copy while a
\* number is displayed leaves the clipboard holding exactly that number's
\* text and sets the success hint.
C11_CopyOutcomes ==
    last.op = "copy" =>
        IF last.mean_var = Placeholder
        THEN copy_hint_var = NoValidData /\ clipboard = last.clipboard
        ELSE copy_hint_var = Copied /\ HoldsMean

\* C11 (amended): the same, when no clipboard call raises; when one raises,
\* the failure hint is set in red and the clipboard is as the calls made
\* before the raise left it (untouched, emptied, or holding the number).
C11_CopyOutcomesUnlessRaised ==
    last.op = "copy" =>
        /\ mean_var = last.mean_var
        /\ timers = last.timers + 1
        /\ IF last.mean_var = Placeholder
           THEN /\ copy_hint_var = NoValidData /\ copy_hint_color = "red"
                /\ clipboard = last.clipboard
           ELSE IF last.outcome = "ok"
           THEN /\ copy_hint_var = Copied /\ copy_hint_color = "green"
                /\ HoldsMean
           ELSE /\ copy_hint_var = CopyFailed /\ copy_hint_color = "red"
                /\ \/ last.outcome = "clear_raises" /\ clipboard = last.clipboard
                   \/ last.outcome = "append_raises" /\ clipboard = <<>>
                   \/ last.outcome = "update_raises" /\ HoldsMean

\* A successful copy of 3.5000 over a clipboard that held something else.
C11_Witness ==
    /\ last.op = "copy" /\ last.outcome = "ok"
    /\ last.mean_var = Some(35000)
    /\ last.clipboard = Other
    /\ clipboard = <<"3", ".", "5", "0", "0", "0">>
    /\ copy_hint_var = Copied

\* A copy while the placeholder is displayed, over a clipboard that holds
\* an earlier copied number.
C11_WitnessNoData ==
    /\ last.op = "copy" /\ last.mean_var = Placeholder
    /\ IsNumericText(last.clipboard) /\ clipboard = last.clipboard
    /\ copy_hint_var = NoValidData

\* A copy whose clipboard_append raises.
C11_WitnessRaised ==
    /\ last.op = "copy" /\ last.outcome = "append_raises"
    /\ last.clipboard # <<>> /\ clipboard = <<>>
    /\ copy_hint_var = CopyFailed

\* C17: when a callback scheduled by an earlier copy runs while the
\* callback of the copy that set the displayed hint is still pending, the
\* displayed hint stays.
C17_StaleTimerKeepsHint ==
    (last.op = "timer" /\ last.timers >= 2 /\ last.copy_hint_var # NoHint) =>
        copy_hint_var = last.copy_hint_var

====
